---------------------------- MODULE Spec2Model ----------------------------
(***************************************************************************)
(* A model of job_application_tracker.py: the pure text heuristics         *)
(* (is_job_alert, extract_company, extract_role, categorize_status) as     *)
(* operators over strings, and one run of main() as a state machine.       *)
(*                                                                         *)
(* Strings are TLA+ strings; a character is a string of length 1.  The     *)
(* model's alphabet is ASCII; the one non-ASCII character the source names *)
(* (U+2013, the en dash of the separator class) is written EnDash.         *)
(***************************************************************************)
EXTENDS Integers, Sequences, FiniteSets, TLC

(***************************************************************************)
(* Text primitives (Python str and re semantics on ASCII text)            *)
(***************************************************************************)

\* s[i], 1-based, as a string of length 1.
Char(s, i) == SubSeq(s, i, i)

\* s[:n]
Take(s, n) == IF Len(s) <= n THEN s ELSE SubSeq(s, 1, n)

\* s[i-1:] in Python terms: the suffix that starts at position i.
From(s, i) == IF i > Len(s) THEN "" ELSE SubSeq(s, i, Len(s))

LowerLetters == "abcdefghijklmnopqrstuvwxyz"
UpperLetters == "ABCDEFGHIJKLMNOPQRSTUVWXYZ"
DigitChars == "0123456789"
\* U+2013 (en dash) in the model's alphabet.
EnDash == "~"

CharsOf(s) == {Char(s, i) : i \in 1..Len(s)}
LowerSet == CharsOf(LowerLetters)
UpperSet == CharsOf(UpperLetters)
DigitSet == CharsOf(DigitChars)

ToLowerFn == [c \in UpperSet |->
                Char(LowerLetters, CHOOSE i \in 1..Len(UpperLetters) : Char(UpperLetters, i) = c)]
ToUpperFn == [c \in LowerSet |->
                Char(UpperLetters, CHOOSE i \in 1..Len(LowerLetters) : Char(LowerLetters, i) = c)]

LowerChar(c) == IF c \in UpperSet THEN ToLowerFn[c] ELSE c
UpperChar(c) == IF c \in LowerSet THEN ToUpperFn[c] ELSE c

IsAlpha(c) == c \in LowerSet \/ c \in UpperSet
\* the regular expression class \w
IsWord(c) == IsAlpha(c) \/ c \in DigitSet \/ c = "_"
\* the regular expression class \s, and the characters str.strip() removes
IsSpace(c) == c \in {" ", "\t", "\n", "\r", "\f"}
\* the separator class [-–|]
IsSep(c) == c \in {"-", EnDash, "|"}

\* str.lower()
RECURSIVE Lower(_)
Lower(s) ==
    IF Len(s) = 0 THEN ""
    ELSE IF Len(s) = 1 THEN LowerChar(s)
    ELSE LET h == Len(s) \div 2
         IN  Lower(SubSeq(s, 1, h)) \o Lower(SubSeq(s, h + 1, Len(s)))

\* str.title(): a letter that follows a letter is lower-cased, any other letter is
\* upper-cased, every other character is kept.
RECURSIVE TitleRange(_, _, _)
TitleRange(s, lo, hi) ==
    IF lo > hi THEN ""
    ELSE IF lo = hi
         THEN LET c == Char(s, lo)
              IN  IF ~IsAlpha(c) THEN c
                  ELSE IF lo > 1 /\ IsAlpha(Char(s, lo - 1)) THEN LowerChar(c)
                  ELSE UpperChar(c)
         ELSE LET mid == (lo + hi) \div 2
              IN  TitleRange(s, lo, mid) \o TitleRange(s, mid + 1, hi)

Title(s) == TitleRange(s, 1, Len(s))

\* str.strip()
Strip(s) ==
    LET keep == {i \in 1..Len(s) : ~IsSpace(Char(s, i))}
    IN  IF keep = {} THEN ""
        ELSE SubSeq(s, CHOOSE i \in keep : \A j \in keep : i <= j,
                       CHOOSE i \in keep : \A j \in keep : j <= i)

\* Python's `k in h` for strings
Contains(h, k) ==
    \E i \in 1..(Len(h) - Len(k) + 1) : SubSeq(h, i, i + Len(k) - 1) = k

\* s.startswith(k, i-1): k occurs in s at position i
OccursAt(s, i, k) ==
    /\ i >= 1
    /\ i + Len(k) - 1 <= Len(s)
    /\ SubSeq(s, i, i + Len(k) - 1) = k

\* str.replace(old, ""): non-overlapping occurrences removed, left to right
RECURSIVE RemoveAll(_, _)
RemoveAll(s, old) ==
    IF Len(s) < Len(old) THEN s
    ELSE IF SubSeq(s, 1, Len(old)) = old THEN RemoveAll(From(s, Len(old) + 1), old)
    ELSE Char(s, 1) \o RemoveAll(From(s, 2), old)

\* Whether c belongs to a character class of the patterns: \s, [\w-] or [\w\s].
InClass(class, c) ==
    CASE class = "space" -> IsSpace(c)
      [] class = "label" -> IsWord(c) \/ c = "-"
      [] class = "word_or_space" -> IsWord(c) \/ IsSpace(c)

\* The length of the longest run of characters of a class that starts at position i.
RunLen(s, i, class) ==
    LET stops == {j \in i..Len(s) : ~InClass(class, Char(s, j))}
    IN  IF i > Len(s) THEN 0
        ELSE IF stops = {} THEN Len(s) - i + 1
        ELSE (CHOOSE j \in stops : \A k \in stops : j <= k) - i

\* `$` without re.MULTILINE: at the end, or just before a final newline.
AtEnd(s, q) == q = Len(s) + 1 \/ (q = Len(s) /\ Char(s, q) = "\n")

SetMin(S) == CHOOSE x \in S : \A y \in S : x <= y
SetMax(S) == CHOOSE x \in S : \A y \in S : y <= x

\* A search result: no match, or the text of group 1.
NoMatch == [matched |-> FALSE, group |-> ""]
Match(g) == [matched |-> TRUE, group |-> g]

(***************************************************************************)
(* is_job_alert                                                            *)
(***************************************************************************)
spam_indicators ==
    << "linkedin.com", "indeed.com", "glassdoor.com", "monster.com",
       "jobrapido", "jooble", "jobtome", "talent.com", "simplyhired",
       "ziprecruiter", "newsletter", "job alert", "new jobs",
       "recommended for you", "jobs matching", "daily digest" >>

\* any(kw in text for kw in kws)
AnyIn(kws, text) == \E i \in 1..Len(kws) : Contains(text, kws[i])

is_job_alert(email_from, subject) ==
    LET combined == Lower(email_from \o " " \o subject)
    IN  AnyIn(spam_indicators, combined)

(***************************************************************************)
(* categorize_status                                                       *)
(***************************************************************************)
rejection_kw ==
    << "not selected", "unfortunately", "other candidates", "position filled",
       "not moving forward", "pursue other", "not be considered" >>
assessment_kw ==
    << "codesignal", "hackerrank", "coding challenge", "assessment", "technical test" >>
interview_kw ==
    << "interview", "schedule", "meet with", "phone screen", "video call",
       "would like to speak" >>
applied_kw ==
    << "application received", "thank you for applying", "confirm your application",
       "submitted successfully" >>

\* body[:500]
StatusWindow == 500

\* A variant that ranks the interview keywords above the assessment keywords.
categorize_status_swapped(subject, body) ==
    LET s == Lower(subject)
        b == Lower(Take(body, StatusWindow))
        combined == s \o " " \o b
    IN  IF AnyIn(rejection_kw, combined) THEN "Rejected"
        ELSE IF AnyIn(interview_kw, combined) THEN "Interview"
        ELSE IF AnyIn(assessment_kw, combined) THEN "Assessment"
        ELSE IF AnyIn(applied_kw, combined) THEN "Applied"
        ELSE "Other"

categorize_status(subject, body) ==
    LET s == Lower(subject)
        b == Lower(Take(body, StatusWindow))
        combined == s \o " " \o b
    IN  IF AnyIn(rejection_kw, combined) THEN "Rejected"
        ELSE IF AnyIn(assessment_kw, combined) THEN "Assessment"
        ELSE IF AnyIn(interview_kw, combined) THEN "Interview"
        ELSE IF AnyIn(applied_kw, combined) THEN "Applied"
        ELSE "Other"

(***************************************************************************)
(* extract_company                                                         *)
(***************************************************************************)

\* re.search(r'@([\w-]+)\.(com|io|ai|co)', s): group 1 of the leftmost match.
\* [\w-]+ cannot stop short of the end of its run (the next character would not be
\* the dot), so at each "@" there is one candidate: the whole run, then a dot, then
\* a text that starts with one of the four suffixes.
DomainSuffixes == << "com", "io", "ai", "co" >>

DomainMatchAt(s, p) ==
    LET n == RunLen(s, p + 1, "label")
    IN  /\ Char(s, p) = "@"
        /\ n >= 1
        /\ OccursAt(s, p + 1 + n, ".")
        /\ \E i \in 1..Len(DomainSuffixes) : OccursAt(s, p + 2 + n, DomainSuffixes[i])

DomainSearch(s) ==
    LET starts == {p \in 1..Len(s) : DomainMatchAt(s, p)}
    IN  IF starts = {} THEN NoMatch
        ELSE LET p == SetMin(starts)
             IN  Match(SubSeq(s, p + 1, p + RunLen(s, p + 1, "label")))

\* What may follow the lazy group: (?:\s*[-–|]|$)
SepOrEnd(s, q) ==
    \/ LET n == RunLen(s, q, "space")
       IN  q + n <= Len(s) /\ IsSep(Char(s, q + n))
    \/ AtEnd(s, q)

\* re.search(r'at\s+([\w\s]+?)(?:\s*[-–|]|$)', s), case-sensitive.  At a start p the
\* greedy \s+ tries its longest run first (k descending), the lazy group its
\* shortest length first (m ascending); the first pair whose tail matches wins.
AtPairs(s, p) ==
    UNION { LET g == p + 2 + k
                run == RunLen(s, g, "word_or_space")
            IN  {<<k, m>> : m \in {n \in 1..run : SepOrEnd(s, g + n)}}
            : k \in 1..RunLen(s, p + 2, "space") }

AtSearch(s) ==
    LET starts == {p \in 1..Len(s) : OccursAt(s, p, "at") /\ AtPairs(s, p) # {}}
    IN  IF starts = {} THEN NoMatch
        ELSE LET p == SetMin(starts)
                 pairs == AtPairs(s, p)
                 k == SetMax({km[1] : km \in pairs})
                 m == SetMin({km[2] : km \in {x \in pairs : x[1] = k}})
             IN  Match(SubSeq(s, p + 2 + k, p + 2 + k + m - 1))

\* company.replace('greenhouse','').replace('lever','').replace('workday','').replace('myworkday','')
StripVendors(label) ==
    RemoveAll(RemoveAll(RemoveAll(RemoveAll(label, "greenhouse"), "lever"), "workday"),
              "myworkday")

\* len(company) > 2
MinCompanyLen == 2

\* A variant that accepts a sender-derived name of length 2.
extract_company_short(email_from, subject) ==
    LET m1 == DomainSearch(Lower(email_from))
        company == StripVendors(m1.group)
        m2 == AtSearch(subject)
    IN  IF m1.matched /\ company # "" /\ Len(company) >= MinCompanyLen THEN Title(company)
        ELSE IF m2.matched THEN Title(Strip(m2.group))
        ELSE "Unknown"

extract_company(email_from, subject) ==
    LET m1 == DomainSearch(Lower(email_from))
        company == StripVendors(m1.group)
        m2 == AtSearch(subject)
    IN  IF m1.matched /\ company # "" /\ Len(company) > MinCompanyLen THEN Title(company)
        ELSE IF m2.matched THEN Title(Strip(m2.group))
        ELSE "Unknown"

(***************************************************************************)
(* extract_role                                                            *)
(***************************************************************************)

\* ([\w\s]{5,40}?)
RoleMinLen == 5
RoleMaxLen == 40
\* body[:200]
RoleWindow == 200

\* re.IGNORECASE: the two patterns hold lower-case literals and classes that do not
\* tell cases apart, so they match a text where they match its lower-cased copy
\* (ls below), at the same positions; the group is then cut out of the text itself.

\* What may follow the lazy group of pattern 1: (?:\s+at|\s*[-–|]|$).
\* \s+ gives characters back, so "at" may follow any non-empty prefix of the run.
RoleTail(ls, q) ==
    \/ \E j \in 1..RunLen(ls, q, "space") : OccursAt(ls, q + j, "at")
    \/ SepOrEnd(ls, q)

\* The prefix (?:for\s+|role:\s*|position:\s*) at p: the length of its literal and
\* the fewest white space characters it must take, or no match.  The three literals
\* start with different letters, so at most one alternative applies at p.
RolePrefix(ls, p) ==
    IF OccursAt(ls, p, "for") THEN [matched |-> TRUE, lit |-> 3, least |-> 1]
    ELSE IF OccursAt(ls, p, "role:") THEN [matched |-> TRUE, lit |-> 5, least |-> 0]
    ELSE IF OccursAt(ls, p, "position:") THEN [matched |-> TRUE, lit |-> 9, least |-> 0]
    ELSE [matched |-> FALSE, lit |-> 0, least |-> 0]

\* <<white space taken, group length>> pairs that make pattern 1 match at p.
RolePairs(ls, p) ==
    LET pre == RolePrefix(ls, p)
    IN  IF ~pre.matched THEN {}
        ELSE UNION { LET g == p + pre.lit + k
                         run == RunLen(ls, g, "word_or_space")
                     IN  {<<k, m>> : m \in {n \in RoleMinLen..RoleMaxLen :
                                               n <= run /\ RoleTail(ls, g + n)}}
                     : k \in pre.least..RunLen(ls, p + pre.lit, "space") }

\* re.search(patterns[0], s, re.IGNORECASE): leftmost start, greedy white space
\* (longest first), lazy group (shortest first).
GenericRoleSearch(s) ==
    LET ls == Lower(s)
        starts == {p \in 1..Len(s) : RolePairs(ls, p) # {}}
    IN  IF starts = {} THEN NoMatch
        ELSE LET p == SetMin(starts)
                 pairs == RolePairs(ls, p)
                 g == p + RolePrefix(ls, p).lit
                 k == SetMax({km[1] : km \in pairs})
                 m == SetMin({km[2] : km \in {x \in pairs : x[1] = k}})
             IN  Match(SubSeq(s, g + k, g + k + m - 1))

\* patterns[1]: the closed vocabulary.  "." in full.stack is any character but a
\* newline.
role_vocabulary ==
    << "software engineer", "data engineer", "ml engineer", "machine learning",
       "data scientist", "backend", "frontend" >>

\* The length of the alternative of patterns[1] that matches at p, 0 for none (the
\* alternatives are tried in order; no two of them can match at the same place).
VocabularyLenAt(ls, p) ==
    LET hits == {i \in 1..Len(role_vocabulary) : OccursAt(ls, p, role_vocabulary[i])}
    IN  IF hits # {} THEN Len(role_vocabulary[SetMin(hits)])
        ELSE IF /\ OccursAt(ls, p, "full")
                /\ p + 4 <= Len(ls)
                /\ Char(ls, p + 4) # "\n"
                /\ OccursAt(ls, p + 5, "stack")
             THEN 10
        ELSE 0

\* re.search(patterns[1], s, re.IGNORECASE)
VocabularySearch(s) ==
    LET ls == Lower(s)
        starts == {p \in 1..Len(s) : VocabularyLenAt(ls, p) > 0}
    IN  IF starts = {} THEN NoMatch
        ELSE LET p == SetMin(starts)
             IN  Match(SubSeq(s, p, p + VocabularyLenAt(ls, p) - 1))

\* re.search(pattern, text, re.IGNORECASE) for pattern 1 or 2
RoleSearch(pattern, text) ==
    IF pattern = 1 THEN GenericRoleSearch(text) ELSE VocabularySearch(text)

\* A variant that tries both patterns on the subject before either on the body.
extract_role_subject_first(subject, body) ==
    LET window == Take(body, RoleWindow)
        tries == << RoleSearch(1, subject), RoleSearch(2, subject),
                    IF body # "" THEN RoleSearch(1, window) ELSE NoMatch,
                    IF body # "" THEN RoleSearch(2, window) ELSE NoMatch >>
        hits == {i \in 1..4 : tries[i].matched}
    IN  IF hits = {} THEN "Unknown" ELSE Title(Strip(tries[SetMin(hits)].group))

\* for pattern in patterns: the subject, then (a non-empty body's) first 200
\* characters; the first match is returned.
extract_role(subject, body) ==
    LET window == Take(body, RoleWindow)
        tries == << RoleSearch(1, subject),
                    IF body # "" THEN RoleSearch(1, window) ELSE NoMatch,
                    RoleSearch(2, subject),
                    IF body # "" THEN RoleSearch(2, window) ELSE NoMatch >>
        hits == {i \in 1..4 : tries[i].matched}
    IN  IF hits = {} THEN "Unknown" ELSE Title(Strip(tries[SetMin(hits)].group))

(***************************************************************************)
(* State                                                                   *)
(***************************************************************************)
VARIABLES
    \* one call of a text heuristic: its arguments, which one ran, what it returned
    email_from, subject, body, fn, ret,
    \* one run of main()
    pc,               \* where main() is
    token,            \* token.pickle: "absent", or the state of the credentials in it
    credentials_file, \* whether credentials.json exists
    service,          \* self.service
    query_idx,        \* the next entry of queries to search
    all_ids,          \* the set all_ids
    searches_failed,  \* how many searches raised (and returned [])
    pending,          \* the ids the for loop has not reached yet
    fetch_failed,     \* the ids whose details could not be fetched
    applications,     \* self.applications
    event_ids,        \* the message id behind each entry of applications
    output_dir,       \* whether the directory output/ exists
    csv,              \* the CSV file written, if any
    report_printed,   \* whether the report was printed
    charts,           \* the PNG files saved
    error_reported    \* whether main()'s except branch printed the error

callVars == << email_from, subject, body, fn, ret >>
runVars == << pc, token, credentials_file, service, query_idx, all_ids, searches_failed,
              pending, fetch_failed, applications, event_ids, output_dir, csv,
              report_printed, charts, error_reported >>
vars == << email_from, subject, body, fn, ret,
           pc, token, credentials_file, service, query_idx, all_ids, searches_failed,
           pending, fetch_failed, applications, event_ids, output_dir, csv,
           report_printed, charts, error_reported >>

NoCsv == [written |-> FALSE, header |-> << >>, rows |-> << >>]

\* JobApplicationTracker(): no service, no applications; nothing has run.
FreshRun ==
    /\ pc = "authenticate"
    /\ service = "None"
    /\ query_idx = 1
    /\ all_ids = {}
    /\ searches_failed = 0
    /\ pending = {}
    /\ fetch_failed = {}
    /\ applications = << >>
    /\ event_ids = << >>
    /\ csv = NoCsv
    /\ report_printed = FALSE
    /\ charts = {}
    /\ error_reported = FALSE

NoCall ==
    /\ email_from = ""
    /\ subject = ""
    /\ body = ""
    /\ fn = "none"
    /\ ret = ""

(***************************************************************************)
(* Inputs of the text heuristics                                           *)
(***************************************************************************)

\* n copies of the character c
RECURSIVE Filler(_, _)
Filler(c, n) ==
    IF n <= 0 THEN ""
    ELSE IF n = 1 THEN c
    ELSE Filler(c, n \div 2) \o Filler(c, n - (n \div 2))

\* every concatenation of at most n of the parts
RECURSIVE Concats(_, _)
Concats(parts, n) ==
    IF n = 0 THEN {""}
    ELSE LET shorter == Concats(parts, n - 1)
         IN  shorter \cup {s \o parts[i] : s \in shorter, i \in 1..Len(parts)}

MaxStatusSubjectParts == 1
MaxStatusBodyParts == 2

StatusSubjectParts ==
    << "Unfortunately, we have decided", "Interview Process",
       "CodeSignal Assessment Invitation - Interview Process",
       "Thank you for applying", "Your application was not", "Update" >>
StatusBodyParts ==
    << "interview", " Unfortunately", " selected", "HackerRank",
       "submitted successfully " >>
\* a body whose next word ends exactly at the window, or one character after it
StatusBodyLeads ==
    { "", Filler("x", StatusWindow - 9), Filler("x", StatusWindow - 8) }

StatusSubjects == Concats(StatusSubjectParts, MaxStatusSubjectParts)
StatusBodies ==
    {lead \o rest : lead \in StatusBodyLeads,
                    rest \in Concats(StatusBodyParts, MaxStatusBodyParts)}

InitStatus ==
    /\ FreshRun
    /\ token = "valid" /\ credentials_file = TRUE /\ output_dir = TRUE
    /\ email_from = ""
    /\ subject \in StatusSubjects
    /\ body \in StatusBodies
    /\ fn = "none"
    /\ ret = ""

ApplyStatus ==
    /\ fn = "none"
    /\ fn' = "categorize_status"
    /\ ret' = categorize_status(subject, body)
    /\ UNCHANGED << email_from, subject, body >>
    /\ UNCHANGED runVars

SpecStatus == InitStatus /\ [][ApplyStatus]_vars

MaxNoiseParts == 2

NoiseFromParts ==
    << "jobs@linkedin.com", "recruiting@acme.com", "Acme Daily", "New",
       "JOBS@INDEED.COM", " job" >>
NoiseSubjectParts ==
    << "Digest", " jobs for you", "Interview invitation", "Alert", "Newsletter",
       " alert" >>

InitNoise ==
    /\ FreshRun
    /\ token = "valid" /\ credentials_file = TRUE /\ output_dir = TRUE
    /\ email_from \in Concats(NoiseFromParts, MaxNoiseParts)
    /\ subject \in Concats(NoiseSubjectParts, MaxNoiseParts)
    /\ body = ""
    /\ fn = "none"
    /\ ret = FALSE

ApplyNoise ==
    /\ fn = "none"
    /\ fn' = "is_job_alert"
    /\ ret' = is_job_alert(email_from, subject)
    /\ UNCHANGED << email_from, subject, body >>
    /\ UNCHANGED runVars

SpecNoise == InitNoise /\ [][ApplyNoise]_vars

MaxLabelParts == 2
MaxRoleParts == 2
MaxRoleBodyParts == 1

LabelParts == << "greenhouse", "lever", "my", "workday", "acme" >>
CompanySenders ==
    {pre \o label \o suf : pre \in {"jobs@", "hr", "jobs@acme."},
                           label \in Concats(LabelParts, MaxLabelParts),
                           suf \in {".io", ".org", ".community"}}
CompanySubjects ==
    {"", "Thank you"} \cup
    {lead \o "at" \o gap \o words \o tail :
        lead \in {"", "Update on your application "},
        gap \in {" ", "  "},
        words \in {"", "Acme Corp", "Acme, Inc"},
        tail \in {"", " - Thanks"}}

RoleSubjectParts ==
    << "Your application for ", "Senior Data Engineer", " at Acme", "Role:      ",
       "Backend opening", " - " >>
RoleBodyParts ==
    << "Thank you for your interest at Acme", "position: Analyst - ", "frontend" >>
\* a body whose next word ends exactly at the window, or one character after it
RoleBodyLeads == { "", Filler("x", RoleWindow - 8), Filler("x", RoleWindow - 7) }

RoleSubjects == Concats(RoleSubjectParts, MaxRoleParts)
RoleBodies ==
    {lead \o rest : lead \in RoleBodyLeads, rest \in Concats(RoleBodyParts, MaxRoleBodyParts)}

InitExtract ==
    /\ FreshRun
    /\ token = "valid" /\ credentials_file = TRUE /\ output_dir = TRUE
    /\ \/ /\ email_from \in CompanySenders
          /\ subject \in CompanySubjects
          /\ body = ""
       \/ /\ email_from = ""
          /\ subject \in RoleSubjects
          /\ body \in RoleBodies
    /\ fn = "none"
    /\ ret = ""

ApplyCompany ==
    /\ fn = "none"
    /\ fn' = "extract_company"
    /\ ret' = extract_company(email_from, subject)
    /\ UNCHANGED << email_from, subject, body >>
    /\ UNCHANGED runVars

ApplyRole ==
    /\ fn = "none"
    /\ fn' = "extract_role"
    /\ ret' = extract_role(subject, body)
    /\ UNCHANGED << email_from, subject, body >>
    /\ UNCHANGED runVars

NextExtract == ApplyCompany \/ ApplyRole

SpecExtract == InitExtract /\ [][NextExtract]_vars

(***************************************************************************)
(* One run of main()                                                       *)
(***************************************************************************)

\* How many messages the mailbox holds.
MaxMsgs == 4
MsgIds == 1..MaxMsgs

\* len(queries)
NumQueries == 4

\* A message as users().messages().get(format='full') returns it: the headers it
\* carries, its payload (a text/plain part, parts without one, a body of its own,
\* or data that does not decode), and internalDate in milliseconds.
Message(id) ==
    CASE id % 4 = 1 ->
           [headers |-> [From |-> "Indeed <jobs@indeed.com>", Subject |-> "New jobs for you"],
            payload |-> [kind |-> "body", text |-> "Software Engineer roles near you"],
            internalDate |-> 3000 + id]
      [] id % 4 = 2 ->
           [headers |-> [From |-> "recruiting@acme.com",
                         Subject |-> "Unfortunately, we have decided to move forward with other candidates"],
            payload |-> [kind |-> "plain_part", text |-> "Thank you for your interest at Acme"],
            internalDate |-> 1000]
      [] id % 4 = 3 ->
           [headers |-> [From |-> "no-reply@greenhouse.io",
                         Subject |-> "Thank you for applying to Acme - Software Engineer"],
            payload |-> [kind |-> "no_plain_part", text |-> ""],
            internalDate |-> 2000]
      [] OTHER ->
           [headers |-> [From |-> "Initech Talent <talent@initech.co>"],
            payload |-> [kind |-> "undecodable", text |-> ""],
            internalDate |-> 2000]

\* headers.get(name, '')
HeaderGet(headers, name) == IF name \in DOMAIN headers THEN headers[name] ELSE ""

\* The body the try block leaves: the decoded text of the first text/plain part or
\* of the payload's own body, "" when there is none or decoding raised.
ExtractBody(payload) ==
    IF payload.kind \in {"plain_part", "body"} THEN payload.text ELSE ""

\* datetime.fromtimestamp(int(date_ms)/1000), as microseconds since the epoch
FromTimestamp(date_ms) == date_ms * 1000

\* The keys of the dictionary appended to self.applications, in insertion order:
\* the columns of the DataFrame.
EventKeys == << "Date", "Company", "Role", "Status", "Subject" >>

ApplicationEvent(email) ==
    LET subj == HeaderGet(email.headers, "Subject")
        sender == HeaderGet(email.headers, "From")
        text == ExtractBody(email.payload)
    IN  [Date |-> FromTimestamp(email.internalDate),
         Company |-> extract_company(sender, subj),
         Role |-> extract_role(subj, text),
         Status |-> categorize_status(subj, text),
         Subject |-> subj]

IsAlert(id) ==
    is_job_alert(HeaderGet(Message(id).headers, "From"),
                 HeaderGet(Message(id).headers, "Subject"))

ChartFiles ==
    { "status_distribution.png", "timeline.png", "top_companies.png",
      "monthly_heatmap.png" }

Init ==
    /\ NoCall
    /\ FreshRun
    /\ token \in {"absent", "valid", "expired", "invalid"}
    /\ credentials_file \in BOOLEAN
    /\ output_dir \in BOOLEAN

\* main()'s except branch: the error is printed and the run ends.
Abort ==
    /\ error_reported' = TRUE
    /\ pc' = "done"

\* authenticate() with valid credentials in token.pickle.
AuthenticateValid ==
    /\ pc = "authenticate"
    /\ token = "valid"
    /\ service' = "gmail"
    /\ pc' = "search"
    /\ UNCHANGED << token, credentials_file, query_idx, all_ids, searches_failed, pending,
                    fetch_failed, applications, event_ids, output_dir, csv,
                    report_printed, charts, error_reported >>
    /\ UNCHANGED callVars

\* authenticate() with expired credentials that hold a refresh token: the refresh
\* succeeds (the token is written back) or raises.
AuthenticateRefresh ==
    /\ pc = "authenticate"
    /\ token = "expired"
    /\ \/ /\ token' = "valid"
          /\ service' = "gmail"
          /\ pc' = "search"
          /\ UNCHANGED error_reported
       \/ /\ Abort
          /\ UNCHANGED << token, service >>
    /\ UNCHANGED << credentials_file, query_idx, all_ids, searches_failed, pending,
                    fetch_failed, applications, event_ids, output_dir, csv,
                    report_printed, charts >>
    /\ UNCHANGED callVars

\* A faulty variant of the flow: its failure is reported, and the analysis runs all
\* the same.
AuthenticateFlowContinues ==
    /\ pc = "authenticate"
    /\ token \in {"absent", "invalid"}
    /\ \/ /\ credentials_file
          /\ token' = "valid"
          /\ service' = "gmail"
          /\ pc' = "search"
          /\ UNCHANGED error_reported
       \/ /\ error_reported' = TRUE
          /\ pc' = "search"
          /\ UNCHANGED << token, service >>
    /\ UNCHANGED << credentials_file, query_idx, all_ids, searches_failed, pending,
                    fetch_failed, applications, event_ids, output_dir, csv,
                    report_printed, charts >>
    /\ UNCHANGED callVars

\* authenticate() with no usable credentials: the installed-app flow, which needs
\* credentials.json and may itself raise.
AuthenticateFlow ==
    /\ pc = "authenticate"
    /\ token \in {"absent", "invalid"}
    /\ \/ /\ credentials_file
          /\ token' = "valid"
          /\ service' = "gmail"
          /\ pc' = "search"
          /\ UNCHANGED error_reported
       \/ /\ Abort
          /\ UNCHANGED << token, service >>
    /\ UNCHANGED << credentials_file, query_idx, all_ids, searches_failed, pending,
                    fetch_failed, applications, event_ids, output_dir, csv,
                    report_printed, charts >>
    /\ UNCHANGED callVars

\* Where analyze_applications goes once the ids to visit are ids: into the loop, or
\* past it.
LoopOrReport(ids) == IF ids = {} THEN "report" ELSE "process"

\* One pass of the loop over queries: search_emails returns the messages found, or
\* [] when the call raised (as it does without a service); all_ids.update.
SearchEmails ==
    /\ pc = "search"
    /\ query_idx <= NumQueries
    /\ \E ok \in BOOLEAN, msgs \in SUBSET MsgIds :
          /\ IF ok /\ service # "None"
             THEN /\ all_ids' = all_ids \cup msgs
                  /\ UNCHANGED searches_failed
             ELSE /\ msgs = {}
                  /\ all_ids' = all_ids
                  /\ searches_failed' = searches_failed + 1
          /\ query_idx' = query_idx + 1
          /\ IF query_idx = NumQueries
             THEN /\ pending' = all_ids'
                  /\ pc' = LoopOrReport(all_ids')
             ELSE UNCHANGED << pending, pc >>
    /\ UNCHANGED << token, credentials_file, service, fetch_failed, applications,
                    event_ids, output_dir, csv, report_printed, charts, error_reported >>
    /\ UNCHANGED callVars

\* A faulty variant of a failed fetch: the exception leaves the loop, the remaining
\* ids unvisited.
FetchFailsAborts(id) ==
    /\ pc = "process"
    /\ id \in pending
    /\ fetch_failed' = fetch_failed \cup {id}
    /\ pc' = "report"
    /\ UNCHANGED << pending, token, credentials_file, service, query_idx, all_ids,
                    searches_failed, applications, event_ids, output_dir, csv,
                    report_printed, charts, error_reported >>
    /\ UNCHANGED callVars

\* A pass of the loop over all_ids in which get_email_details returned None.
FetchFails(id) ==
    /\ pc = "process"
    /\ id \in pending
    /\ fetch_failed' = fetch_failed \cup {id}
    /\ pending' = pending \ {id}
    /\ pc' = LoopOrReport(pending')
    /\ UNCHANGED << token, credentials_file, service, query_idx, all_ids, searches_failed,
                    applications, event_ids, output_dir, csv, report_printed, charts,
                    error_reported >>
    /\ UNCHANGED callVars

\* A faulty variant of the skip: the job alert is stored like any other message.
SkipAlertStores(id) ==
    /\ pc = "process"
    /\ id \in pending
    /\ IsAlert(id)
    /\ applications' = Append(applications, ApplicationEvent(Message(id)))
    /\ event_ids' = Append(event_ids, id)
    /\ pending' = pending \ {id}
    /\ pc' = LoopOrReport(pending')
    /\ UNCHANGED << token, credentials_file, service, query_idx, all_ids, searches_failed,
                    fetch_failed, output_dir, csv, report_printed, charts,
                    error_reported >>
    /\ UNCHANGED callVars

\* A pass in which the message was fetched and is_job_alert said to skip it.
SkipAlert(id) ==
    /\ pc = "process"
    /\ id \in pending
    /\ IsAlert(id)
    /\ pending' = pending \ {id}
    /\ pc' = LoopOrReport(pending')
    /\ UNCHANGED << token, credentials_file, service, query_idx, all_ids, searches_failed,
                    fetch_failed, applications, event_ids, output_dir, csv,
                    report_printed, charts, error_reported >>
    /\ UNCHANGED callVars

\* A pass in which the message was fetched and stored.
StoreApplication(id) ==
    /\ pc = "process"
    /\ id \in pending
    /\ ~IsAlert(id)
    /\ applications' = Append(applications, ApplicationEvent(Message(id)))
    /\ event_ids' = Append(event_ids, id)
    /\ pending' = pending \ {id}
    /\ pc' = LoopOrReport(pending')
    /\ UNCHANGED << token, credentials_file, service, query_idx, all_ids, searches_failed,
                    fetch_failed, output_dir, csv, report_printed, charts,
                    error_reported >>
    /\ UNCHANGED callVars

\* The for loop visits the set all_ids in whatever order it iterates.
ProcessEmail == \E id \in MsgIds : FetchFails(id) \/ SkipAlert(id) \/ StoreApplication(id)

Orderings(n) == {f \in [1..n -> 1..n] : \A i, j \in 1..n : f[i] = f[j] => i = j}

\* A faulty variant of the sort: the rows in the order they were collected.
Unsorted(rows) == { rows }

\* df.sort_values('Date', ascending=False): the rows, latest first; rows of one date
\* in any order.
SortValuesDescending(rows) ==
    LET n == Len(rows)
        orders == {[i \in 1..n |-> rows[f[i]]] : f \in Orderings(n)}
    IN  {o \in orders : \A i \in 1..(n - 1) : o[i].Date >= o[i + 1].Date}

\* generate_report() with nothing collected: it returns None and main() ends.
GenerateReportEmpty ==
    /\ pc = "report"
    /\ applications = << >>
    /\ pc' = "done"
    /\ UNCHANGED << token, credentials_file, service, query_idx, all_ids, searches_failed,
                    pending, fetch_failed, applications, event_ids, output_dir, csv,
                    report_printed, charts, error_reported >>
    /\ UNCHANGED callVars

\* generate_report() with applications: the sorted frame is written to
\* output/applications_<date>.csv, which raises when output/ does not exist; then
\* the report is printed.
GenerateReport ==
    /\ pc = "report"
    /\ applications # << >>
    /\ IF output_dir
       THEN /\ \E rows \in SortValuesDescending(applications) :
                  csv' = [written |-> TRUE, header |-> EventKeys, rows |-> rows]
            /\ report_printed' = TRUE
            /\ pc' = "visualize"
            /\ UNCHANGED error_reported
       ELSE /\ Abort
            /\ UNCHANGED << csv, report_printed >>
    /\ UNCHANGED << token, credentials_file, service, query_idx, all_ids, searches_failed,
                    pending, fetch_failed, applications, event_ids, output_dir, charts >>
    /\ UNCHANGED callVars

\* generate_visualizations(df): os.makedirs('output', exist_ok=True), then the four
\* charts are saved.
GenerateVisualizations ==
    /\ pc = "visualize"
    /\ output_dir' = TRUE
    /\ charts' = ChartFiles
    /\ pc' = "done"
    /\ UNCHANGED << token, credentials_file, service, query_idx, all_ids, searches_failed,
                    pending, fetch_failed, applications, event_ids, csv, report_printed,
                    error_reported >>
    /\ UNCHANGED callVars

Next ==
    \/ AuthenticateValid
    \/ AuthenticateRefresh
    \/ AuthenticateFlow
    \/ SearchEmails
    \/ ProcessEmail
    \/ GenerateReportEmpty
    \/ GenerateReport
    \/ GenerateVisualizations

Spec == Init /\ [][Next]_vars

(***************************************************************************)
(* Properties                                                              *)
(***************************************************************************)

\* k is a substring of h
Occurs(k, h) == \E i \in 0..(Len(h) - Len(k)) : SubSeq(h, i + 1, i + Len(k)) = k
OccursAny(kws, h) == \E j \in 1..Len(kws) : Occurs(kws[j], h)

StatusOrder == << "Rejected", "Assessment", "Interview", "Applied" >>
StatusKeywords == << rejection_kw, assessment_kw, interview_kw, applied_kw >>

\* The haystack of a categorize_status call: the lower-cased subject, then (after
\* the joining space) the lower-cased first 500 characters of the body.
StatusHaystack == Lower(subject) \o " " \o Lower(Take(body, StatusWindow))
StatusHits == {i \in 1..4 : OccursAny(StatusKeywords[i], StatusHaystack)}

\* C1: categorize_status returns the first category, in the order Rejected,
\* Assessment, Interview, Applied, one of whose keywords is a substring of the
\* haystack (lower-cased subject, then lower-cased first 500 characters of the body),
\* and Other when none is; so a rejection keyword beside an interview or assessment
\* keyword gives Rejected, and an assessment keyword beside an interview keyword
\* (with no rejection keyword) gives Assessment.
Thm_C1 ==
    fn = "categorize_status" =>
        LET hits == StatusHits
        IN  /\ ret = IF hits = {} THEN "Other" ELSE StatusOrder[SetMin(hits)]
            /\ (1 \in hits /\ (2 \in hits \/ 3 \in hits)) => ret = "Rejected"
            /\ (1 \notin hits /\ 2 \in hits /\ 3 \in hits) => ret = "Assessment"

\* A call whose haystack holds an assessment and an interview keyword and no
\* rejection keyword, with a body longer than the window.
Witness_C1 ==
    /\ fn = "categorize_status"
    /\ Len(body) > StatusWindow
    /\ StatusHits = {2, 3}
    /\ ret = "Assessment"

\* C2: is_job_alert returns true exactly when a denylisted string occurs, ignoring
\* case, in the sender or in the subject; a pair neither of whose fields holds one
\* is never reported as noise.
Claim_C2 ==
    fn = "is_job_alert" =>
        (ret <=> (\/ OccursAny(spam_indicators, Lower(email_from))
                  \/ OccursAny(spam_indicators, Lower(subject))))

\* C4: the company extract_company returns and the role extract_role returns are
\* never the empty string.
Claim_C4 == fn \in {"extract_company", "extract_role"} => ret # ""

\* The sender's domain label with the vendor names removed, and whether the sender
\* alone decides the company.
SenderLabel == DomainSearch(Lower(email_from))
SenderRest == StripVendors(SenderLabel.group)
SenderDecides == SenderLabel.matched /\ Len(SenderRest) > 2

\* C5: extract_company returns the title-cased remainder of the sender's domain label
\* (vendor names removed) when that remainder is longer than 2, whatever the subject;
\* otherwise what the subject's "at <words>" pattern captures; and "Unknown" only
\* when that fails too.  A sender-derived result of length 2 or less is never
\* returned.
Thm_C5 ==
    fn = "extract_company" =>
        LET decides == SenderDecides
            inSubject == AtSearch(subject)
        IN  /\ decides =>
                  /\ ret = Title(SenderRest)
                  /\ Len(ret) > 2
                  /\ \A other \in {"", "Update on your application at Acme Corp - Thanks"} :
                        extract_company(email_from, other) = ret
            /\ (~decides /\ inSubject.matched) => ret = Title(Strip(inSubject.group))
            /\ (~decides /\ ~inSubject.matched) => ret = "Unknown"

\* A sender whose label is nothing but a vendor name, with the company taken from
\* the subject.
Witness_C5 ==
    /\ fn = "extract_company"
    /\ SenderLabel.matched
    /\ SenderLabel.group = "greenhouse"
    /\ SenderRest = ""
    /\ subject = "Update on your application at Acme Corp - Thanks"
    /\ ret = "Acme Corp"

\* What each pattern finds in the subject and in the body's first 200 characters.
InSubject(pattern) == RoleSearch(pattern, subject)
InBody(pattern) == IF body # "" THEN RoleSearch(pattern, Take(body, RoleWindow)) ELSE NoMatch
RoleOf(m) == Title(Strip(m.group))

\* C6 as stated: both patterns are tried on the subject before either is tried on
\* the body, so a subject that matches either pattern decides the role.
Claim_C6 ==
    fn = "extract_role" =>
        /\ InSubject(1).matched => ret = RoleOf(InSubject(1))
        /\ (~InSubject(1).matched /\ InSubject(2).matched) => ret = RoleOf(InSubject(2))

\* C6 as amended: pattern 1 is tried on the subject and then on the first 200
\* characters of the body, and only when it matches neither is pattern 2 tried, on
\* the subject and then on those 200 characters; "Unknown" is returned only when no
\* pattern matches either text.
Thm_C6 ==
    fn = "extract_role" =>
        LET s1 == InSubject(1)
            b1 == InBody(1)
            s2 == InSubject(2)
            b2 == InBody(2)
        IN  /\ s1.matched => ret = RoleOf(s1)
            /\ (~s1.matched /\ b1.matched) => ret = RoleOf(b1)
            /\ (~s1.matched /\ ~b1.matched /\ s2.matched) => ret = RoleOf(s2)
            /\ (~s1.matched /\ ~b1.matched /\ ~s2.matched /\ b2.matched) => ret = RoleOf(b2)
            /\ (~s1.matched /\ ~b1.matched /\ ~s2.matched /\ ~b2.matched) => ret = "Unknown"

\* A subject that matches only the vocabulary and a body that matches pattern 1:
\* the role comes from the body.
Witness_C6 ==
    /\ fn = "extract_role"
    /\ ~InSubject(1).matched
    /\ InSubject(2).matched
    /\ InBody(1).matched
    /\ ret = RoleOf(InBody(1))
    /\ ret # RoleOf(InSubject(2))

AnalysisDone == pc \in {"report", "visualize", "done"}
EventIndices == 1..Len(applications)

\* C3: after analyze_applications, applications holds exactly one event for each id
\* of all_ids that was fetched and is not a job alert, none for a job alert, and each
\* event carries its message's subject unchanged.
Thm_C3 ==
    AnalysisDone =>
        /\ Len(event_ids) = Len(applications)
        /\ \A i, j \in EventIndices : event_ids[i] = event_ids[j] => i = j
        /\ {event_ids[i] : i \in EventIndices}
              = {id \in all_ids : id \notin fetch_failed /\ ~IsAlert(id)}
        /\ \A i \in EventIndices :
              applications[i].Subject = HeaderGet(Message(event_ids[i]).headers, "Subject")

\* The analysis is over: of a job alert, a rejection and an acknowledgement, all
\* found and fetched, the two that are not alerts were stored.
Witness_C3 ==
    /\ pc = "report"
    /\ all_ids = {1, 2, 3}
    /\ fetch_failed = {}
    /\ IsAlert(1)
    /\ Len(applications) = 2
    /\ {applications[i].Status : i \in EventIndices} = {"Rejected", "Applied"}

\* C7: a failed fetch skips that message only (no event added, the events collected
\* untouched, the loop goes on to every remaining id) and a failed search adds no
\* ids and leaves the remaining queries to run; neither ends the run in error.
Thm_C7 ==
    [][ /\ fetch_failed' # fetch_failed =>
              /\ applications' = applications
              /\ event_ids' = event_ids
              /\ pending' = pending \ (fetch_failed' \ fetch_failed)
              /\ ~error_reported'
        /\ searches_failed' # searches_failed =>
              /\ all_ids' = all_ids
              /\ query_idx' = query_idx + 1
              /\ ~error_reported'
        /\ (pc = "search" /\ pc' # "search") => query_idx' = NumQueries + 1
        /\ (pc = "process" /\ pc' # "process") => (pc' = "report" /\ pending' = {})
      ]_vars

\* A search and a fetch failed, and the run still collected an event.
Witness_C7 ==
    /\ pc = "report"
    /\ searches_failed > 0
    /\ fetch_failed # {}
    /\ Len(applications) > 0

\* C8: when authentication fails the error is reported and the run ends with nothing
\* searched, fetched or classified, no application, no report and no chart; messages
\* are searched and classified only once authentication has succeeded.
Thm_C8 ==
    /\ (query_idx > 1 \/ all_ids # {} \/ fetch_failed # {} \/ applications # << >>)
          => service = "gmail"
    /\ (pc # "authenticate" /\ service = "None") =>
          /\ pc = "done"
          /\ error_reported
          /\ query_idx = 1 /\ searches_failed = 0 /\ all_ids = {}
          /\ fetch_failed = {} /\ applications = << >>
          /\ ~csv.written /\ ~report_printed /\ charts = {}

\* Authentication failed for want of credentials.json and the run has ended.
Witness_C8 ==
    /\ pc = "done"
    /\ service = "None"
    /\ ~credentials_file
    /\ token = "absent"
    /\ error_reported

\* C9: the CSV generate_report writes holds every collected event exactly once, in
\* non-increasing order of date, under the columns Date, Company, Role, Status,
\* Subject, whatever order the messages were processed in.
Thm_C9 ==
    csv.written =>
        /\ csv.header = << "Date", "Company", "Role", "Status", "Subject" >>
        /\ Len(csv.rows) = Len(applications)
        /\ \E f \in Orderings(Len(applications)) :
              \A i \in EventIndices : csv.rows[i] = applications[f[i]]
        /\ \A i \in 1..(Len(csv.rows) - 1) : csv.rows[i].Date >= csv.rows[i + 1].Date

\* A CSV of at least two rows whose order differs from the order of collection.
Witness_C9 ==
    /\ csv.written
    /\ Len(csv.rows) >= 2
    /\ csv.rows # applications
    /\ \E i \in 1..(Len(applications) - 1) : applications[i].Date < applications[i + 1].Date

\* C10: a run that collected an event has output/ in place when the CSV is written,
\* so it ends with the CSV written, the report printed and the charts saved.
Claim_C10 ==
    (pc = "done" /\ applications # << >>) =>
        /\ csv.written
        /\ report_printed
        /\ charts = ChartFiles
        /\ ~error_reported

=============================================================================
